---- MODULE Spec2Model ----
(***************************************************************************)
(* Offline mutation queue and reconciliation engine of secretvault:        *)
(* DatabaseService (local SQLite store and sync_queue) and SyncService     *)
(* (connectivity monitor, drain cycle performSync, status broadcaster).    *)
(* JavaScript is single threaded: every action below is the code that runs *)
(* between two suspension points (await of store I/O or of a network call).*)
(***************************************************************************)
EXTENDS Integers, Sequences, FiniteSets, TLC

\* ---- bounds of the model ----
MaxEntries == 3      \* sync_queue rows ever inserted (AUTOINCREMENT ids)
MaxRecords == 2      \* passwords rows ever inserted
DrainEntries == 2    \* sync_queue rows ever inserted where drain cycles run
DrainRecords == 1    \* passwords rows ever inserted where drain cycles run
MaxUsers == 1        \* users rows ever inserted
MaxCycles == 3       \* performSync invocations that pass the entry guard
MaxActive == 2       \* performSync invocations under way at once
MaxTime == 1         \* values of CURRENT_TIMESTAMP beyond the first
MaxTimers == 1       \* pending auto-sync timers
MaxListeners == 3    \* subscriptions held at once
EngineListeners == 1 \* subscriptions held at once in SpecEngine
LocalCycles == 2     \* performSync invocations beside the write API in SpecLocal
MaxMarks == 2        \* markAsSynced calls counted per queue entry

VARIABLES
  isOnline,        \* SyncService.isOnline
  syncInProgress,  \* SyncService.syncInProgress
  listeners,       \* SyncService.listeners, in subscription order
  timers,          \* pending setTimeout(() => this.performSync(), 1000)
  now,             \* CURRENT_TIMESTAMP of the store (one-second resolution)
  passwords,       \* passwords table, row id = index
  users,           \* users table, row id = index
  sync_queue,      \* sync_queue table, a set of rows
  nextQueueId,     \* AUTOINCREMENT counter of sync_queue
  cyc,             \* the performSync invocations that are under way
  started,         \* performSync invocations that passed the entry guard so far
  wr,              \* the local write that is suspended at addToSyncQueue
  marks,           \* markAsSynced calls made so far on account of each queue entry
  netInfoListener, \* is the NetInfo listener of the constructor still registered?
  last             \* what the most recent step did and returned

vars == <<isOnline, syncInProgress, listeners, timers, now, passwords, users,
          sync_queue, nextQueueId, cyc, started, wr, marks, netInfoListener,
          last>>

NULL == "null"

\* ---- inputs ----
\* subscriber callbacks: "ui" only reads the event, "bad" throws, "once" calls
\* its own unsubscribe function, "kick" calls the unsubscribe function of "ui"
Callbacks == {"ui", "bad", "once", "kick"}
PasswordData == {"pw", "pw2"}       \* passwordData objects
DrainData == {"pw"}                 \* passwordData objects where drain cycles run
UserInfos == {"alice"}              \* userInfo objects
Operations == {"INSERT", "UPDATE", "DELETE"}
\* fetch outcomes: 2xx with a JSON body, 2xx without a body, non-2xx with a
\* JSON body, transport failure (fetch rejects)
Responses == {"ok_json", "ok_empty", "non2xx", "transport"}
\* addToSyncQueue called directly by a client of DatabaseService
DirectEnqueues == {<<"users", "INSERT", "alice">>, <<"notes", "INSERT", "pw">>}

Cycles == 1..MaxActive

\* ---- JSON.stringify / JSON.parse of the data column ----
Stringify(d) == IF d = NULL THEN <<"s", "null">> ELSE <<"s", d>>

Parse(s) == IF s[2] = "null" THEN NULL ELSE s[2]

\* getSyncQueue: item.data = item.data ? JSON.parse(item.data) : null
ParseItem(row) == [row EXCEPT !.data = IF row.data = NULL THEN NULL ELSE Parse(row.data)]

\* ---- Status broadcaster ----
\* notifyListeners: forEach stops at the first callback that throws
NotifyThrows == \E k \in 1..Len(listeners) : listeners[k] = "bad"

\* listeners.filter(listener => listener !== callback)
Without(ls, cb) == SelectSeq(ls, LAMBDA l : l # cb)

\* this.listeners after callback cb has run (cur: this.listeners before)
AfterCallback(cur, cb) ==
  CASE cb = "once" -> Without(cur, "once")
    [] cb = "kick" -> Without(cur, "ui")
    [] OTHER -> cur

\* forEach over the array arr that this.listeners was when notifyListeners
\* was called: callback k runs, then k + 1, until one throws; an unsubscribe
\* replaces this.listeners (cur) and leaves arr alone.  recv: the callbacks
\* that were called
RECURSIVE DeliverFrom(_, _, _, _)
DeliverFrom(arr, k, cur, recv) ==
  IF k > Len(arr)
  THEN [recv |-> recv, listeners |-> cur, threw |-> FALSE]
  ELSE IF arr[k] = "bad"
       THEN [recv |-> Append(recv, arr[k]), listeners |-> cur, threw |-> TRUE]
       ELSE DeliverFrom(arr, k + 1, AfterCallback(cur, arr[k]), Append(recv, arr[k]))

\* notifyListeners(data) with this.listeners = ls
Deliver(ls) == DeliverFrom(ls, 1, ls, <<>>)

\* this.listeners after n calls of notifyListeners in a row
RECURSIVE Passes(_, _)
Passes(ls, n) == IF n = 0 THEN ls ELSE Passes(Deliver(ls).listeners, n - 1)

\* ---- sync_queue helpers ----
\* the store is small where drain cycles run beside the writes
FewEntries == nextQueueId <= DrainEntries

FewRecords == FewEntries /\ Len(passwords) < DrainRecords

QueueIds == {e.id : e \in sync_queue}

QueueRow(tableName, recordId, operation, data) ==
  [id |-> nextQueueId, table_name |-> tableName, record_id |-> recordId,
   operation |-> operation, data |-> Stringify(data), created_at |-> now,
   attempts |-> 0]

\* SELECT * FROM sync_queue ORDER BY created_at ASC: every order of the rows
\* that is ascending in created_at (rows of one timestamp in any order)
Orderings(S) ==
  {s \in [1..Cardinality(S) -> S] :
      /\ \A a, b \in 1..Cardinality(S) : a # b => s[a] # s[b]
      /\ \A a, b \in 1..Cardinality(S) : a < b => s[a].created_at <= s[b].created_at}

\* DELETE FROM sync_queue without the WHERE clause
DeleteRowAll(q, id) == {}

\* DELETE FROM sync_queue WHERE id = ?
DeleteRow(q, id) == {e \in q : e.id # id}

\* an UPDATE of sync_queue that leaves attempts as it is
BumpAttemptsNone(q, id) == q

\* UPDATE sync_queue SET attempts = attempts + 1 WHERE id = ?
BumpAttempts(q, id) ==
  {IF e.id = id THEN [e EXCEPT !.attempts = @ + 1] ELSE e : e \in q}

\* UPDATE <table> SET synced = 1 WHERE id = ?
SetSynced(tbl, id) ==
  IF id \in 1..Len(tbl) THEN [tbl EXCEPT ![id].synced = 1] ELSE tbl

\* ---- records of the model ----
\* pc: the await a performSync invocation is suspended at; snap, i: the array
\* returned by getSyncQueue and the position of the for loop; log[k]: the
\* outcome of the remote call made for item k ("none": no call was made);
\* faults: the store calls of the invocation whose executeSql rejected
IdleCyc == [pc |-> "idle", force |-> FALSE, snap |-> <<>>, i |-> 0,
            syncedCount |-> 0, failedCount |-> 0, log |-> <<>>, faults |-> {}]

IdleWr == [pc |-> "idle", op |-> "", rid |-> 0, data |-> NULL]

\* last: what the most recent step returned to its caller (op "step": the step
\* ended at an await in the middle of a call); events: what it broadcast;
\* recv: the callbacks its first notifyListeners called; rows: the ids of the
\* rows getPasswords returned
L0 == [op |-> "init", c |-> 0, force |-> FALSE, result |-> "", events |-> <<>>,
       snap |-> <<>>, log |-> <<>>, i |-> 0, syncedCount |-> 0,
       failedCount |-> 0, rid |-> 0, enq |-> 0, arg |-> "", recv |-> <<>>,
       faults |-> {}, rows |-> {}]

Ret(op, result) == [L0 EXCEPT !.op = op, !.result = result]

Step == [L0 EXCEPT !.op = "step"]

Init ==
  /\ isOnline = FALSE
  /\ syncInProgress = FALSE
  /\ listeners = <<>>
  /\ timers = 0
  /\ now = 0
  /\ passwords = <<>>
  /\ users = <<>>
  /\ sync_queue = {}
  /\ nextQueueId = 1
  /\ cyc = [c \in Cycles |-> IdleCyc]
  /\ started = 0
  /\ wr = IdleWr
  /\ marks = [id \in 1..MaxEntries |-> 0]
  /\ netInfoListener = TRUE
  /\ last = L0

\* =========================== DatabaseService ===========================
\* ok: the executeSql of the step resolves (TRUE) or rejects (FALSE).
\* One client calls the write API and awaits each call before the next.

\* savePassword up to its second await: INSERT INTO passwords ... synced = 0
SavePasswordWrite(d, ok) ==
  /\ wr.pc = "idle"
  /\ Len(passwords) < MaxRecords
  /\ nextQueueId <= MaxEntries
  /\ IF ok
     THEN /\ passwords' = Append(passwords, [data |-> d, synced |-> 0, deleted |-> 0])
          /\ wr' = [pc |-> "enqueue", op |-> "savePassword",
                    rid |-> Len(passwords) + 1, data |-> d]
          /\ last' = Step
     ELSE /\ UNCHANGED <<passwords, wr>>
          /\ last' = Ret("savePassword", "threw")
  /\ UNCHANGED <<isOnline, syncInProgress, listeners, timers, now, netInfoListener, users,
                 sync_queue, nextQueueId, cyc, started, marks>>

\* an updatePassword whose UPDATE writes synced = 0 and none of the fields
UpdatePasswordWriteStale(id, d, ok) ==
  /\ wr.pc = "idle"
  /\ id \in 1..Len(passwords)
  /\ nextQueueId <= MaxEntries
  /\ IF ok
     THEN /\ passwords' = [passwords EXCEPT ![id].synced = 0]
          /\ wr' = [pc |-> "enqueue", op |-> "updatePassword", rid |-> id, data |-> d]
          /\ last' = Step
     ELSE /\ UNCHANGED <<passwords, wr>>
          /\ last' = Ret("updatePassword", "threw")
  /\ UNCHANGED <<isOnline, syncInProgress, listeners, timers, now, netInfoListener, users,
                 sync_queue, nextQueueId, cyc, started, marks>>

\* updatePassword up to its second await: UPDATE passwords SET ..., synced = 0
\* WHERE id = ?
UpdatePasswordWrite(id, d, ok) ==
  /\ wr.pc = "idle"
  /\ id \in 1..Len(passwords)
  /\ nextQueueId <= MaxEntries
  /\ IF ok
     THEN /\ passwords' = [passwords EXCEPT ![id].data = d, ![id].synced = 0]
          /\ wr' = [pc |-> "enqueue", op |-> "updatePassword", rid |-> id, data |-> d]
          /\ last' = Step
     ELSE /\ UNCHANGED <<passwords, wr>>
          /\ last' = Ret("updatePassword", "threw")
  /\ UNCHANGED <<isOnline, syncInProgress, listeners, timers, now, netInfoListener, users,
                 sync_queue, nextQueueId, cyc, started, marks>>

\* deletePassword up to its second await: UPDATE passwords SET deleted = 1,
\* synced = 0 WHERE id = ?
DeletePasswordWrite(id, ok) ==
  /\ wr.pc = "idle"
  /\ id \in 1..Len(passwords)
  /\ nextQueueId <= MaxEntries
  /\ IF ok
     THEN /\ passwords' = [passwords EXCEPT ![id].deleted = 1, ![id].synced = 0]
          /\ wr' = [pc |-> "enqueue", op |-> "deletePassword", rid |-> id, data |-> NULL]
          /\ last' = Step
     ELSE /\ UNCHANGED <<passwords, wr>>
          /\ last' = Ret("deletePassword", "threw")
  /\ UNCHANGED <<isOnline, syncInProgress, listeners, timers, now, netInfoListener, users,
                 sync_queue, nextQueueId, cyc, started, marks>>

\* the operation kind each write passes to addToSyncQueue
OperationOf(op) ==
  CASE op = "savePassword" -> "INSERT"
    [] op = "updatePassword" -> "UPDATE"
    [] op = "deletePassword" -> "DELETE"

\* addToSyncQueue: INSERT INTO sync_queue; a store failure is logged and
\* swallowed, the caller goes on as if the row had been appended
AddToSyncQueue(tableName, recordId, operation, data, ok) ==
  /\ sync_queue' = IF ok
                   THEN sync_queue \cup {QueueRow(tableName, recordId, operation, data)}
                   ELSE sync_queue
  /\ nextQueueId' = IF ok THEN nextQueueId + 1 ELSE nextQueueId

\* the rest of savePassword / updatePassword / deletePassword: the await of
\* addToSyncQueue and the return
WriteEnqueue(ok) ==
  /\ wr.pc = "enqueue"
  /\ AddToSyncQueue("passwords", wr.rid, OperationOf(wr.op), wr.data, ok)
  /\ wr' = IdleWr
  /\ last' = [Ret(wr.op, "ok") EXCEPT !.rid = wr.rid, !.arg = wr.data,
                                      !.enq = IF ok THEN nextQueueId ELSE 0]
  /\ UNCHANGED <<isOnline, syncInProgress, listeners, timers, now, netInfoListener, passwords,
                 users, cyc, started, marks>>

\* a SELECT that has no WHERE deleted = 0
AllRows(tbl) == 1..Len(tbl)

\* SELECT * FROM passwords WHERE user_id = ? AND deleted = 0 (the ids of the
\* rows; the model has one user_id)
VisibleRows(tbl) == {id \in 1..Len(tbl) : tbl[id].deleted = 0}

\* getPasswords(userId): the rows that are not deleted; a store failure is
\* swallowed and gives the empty array
GetPasswords(ok) ==
  /\ wr.pc = "idle"
  /\ last' = [Ret("getPasswords", "ok") EXCEPT
                !.rows = IF ok THEN VisibleRows(passwords) ELSE {}]
  /\ UNCHANGED <<isOnline, syncInProgress, listeners, timers, now, netInfoListener, passwords,
                 users, sync_queue, nextQueueId, cyc, wr, started, marks>>

\* saveUserOffline: INSERT OR REPLACE INTO users ... synced = 0; returns the
\* insertId; it makes no call of addToSyncQueue
SaveUserOffline(u, ok) ==
  /\ wr.pc = "idle"
  /\ Len(users) < MaxUsers
  /\ IF ok
     THEN /\ users' = Append([k \in 1..Len(users) |->
                                IF users[k].email = u
                                THEN [users[k] EXCEPT !.present = FALSE]
                                ELSE users[k]],
                             [email |-> u, synced |-> 0, present |-> TRUE])
          /\ last' = [Ret("saveUserOffline", "ok") EXCEPT !.rid = Len(users) + 1]
     ELSE /\ UNCHANGED users
          /\ last' = Ret("saveUserOffline", "threw")
  /\ UNCHANGED <<isOnline, syncInProgress, listeners, timers, now, netInfoListener, passwords,
                 sync_queue, nextQueueId, cyc, wr, started, marks>>

\* addToSyncQueue called on its own (it is a public method of the service)
DirectAddToSyncQueue(in, ok) ==
  /\ wr.pc = "idle"
  /\ nextQueueId <= MaxEntries
  /\ AddToSyncQueue(in[1], 1, in[2], in[3], ok)
  /\ last' = [Ret("addToSyncQueue", "ok") EXCEPT !.rid = 1, !.arg = in[1],
                                                 !.enq = IF ok THEN nextQueueId ELSE 0]
  /\ UNCHANGED <<isOnline, syncInProgress, listeners, timers, now, netInfoListener, passwords,
                 users, cyc, wr, started, marks>>

\* the store's clock reaches the next second
Tick ==
  /\ now < MaxTime
  /\ now' = now + 1
  /\ last' = Step
  /\ UNCHANGED <<isOnline, syncInProgress, listeners, timers, passwords, users,
                 sync_queue, nextQueueId, cyc, wr, started, marks,
                 netInfoListener>>

\* ============================= SyncService =============================
Active(c) == cyc[c].pc # "idle"

\* the slot of the next performSync invocation (0: none left in the model)
NextSlot ==
  IF started < MaxCycles /\ \E c \in Cycles : cyc[c].pc = "idle"
  THEN CHOOSE c \in Cycles : cyc[c].pc = "idle" /\ \A d \in Cycles : cyc[d].pc = "idle" => c <= d
  ELSE 0

\* subscribe(callback): listeners.push(callback)
Subscribe(cb) ==
  /\ Len(listeners) < MaxListeners
  /\ listeners' = Append(listeners, cb)
  /\ last' = [Ret("subscribe", "ok") EXCEPT !.arg = cb]
  /\ UNCHANGED <<isOnline, syncInProgress, timers, now, netInfoListener, passwords, users,
                 sync_queue, nextQueueId, cyc, wr, started, marks>>

\* the function returned by subscribe(callback):
\* listeners = listeners.filter(listener => listener !== callback)
Unsubscribe(cb) ==
  /\ \E k \in 1..Len(listeners) : listeners[k] = cb
  /\ listeners' = SelectSeq(listeners, LAMBDA l : l # cb)
  /\ last' = [Ret("unsubscribe", "ok") EXCEPT !.arg = cb]
  /\ UNCHANGED <<isOnline, syncInProgress, timers, now, netInfoListener, passwords, users,
                 sync_queue, nextQueueId, cyc, wr, started, marks>>

B2N(b) == IF b THEN 1 ELSE 0

\* the NetInfo listener of the constructor, called while it is registered
NetInfoEvent(connected) ==
  /\ netInfoListener
  /\ (~isOnline /\ connected) => timers < MaxTimers
  /\ isOnline' = connected
  /\ timers' = IF ~isOnline /\ connected THEN timers + 1 ELSE timers
  /\ listeners' = Deliver(listeners).listeners
  /\ last' = [Ret("netinfo", IF NotifyThrows THEN "threw" ELSE "ok")
                EXCEPT !.events = << <<"isOnline", B2N(connected), 0>> >>,
                       !.recv = Deliver(listeners).recv]
  /\ UNCHANGED <<syncInProgress, now, netInfoListener, passwords, users, sync_queue,
                 nextQueueId, cyc, wr, started, marks>>

\* checkOnlineStatus: NetInfo.fetch() resolves with isConnected ("true",
\* "false") or rejects ("error")
CheckOnlineStatus(probe) ==
  /\ isOnline' = IF probe = "error" THEN isOnline ELSE (probe = "true")
  /\ last' = [Ret("checkOnlineStatus", IF probe = "true" THEN "true" ELSE "false")
                EXCEPT !.arg = probe]
  /\ UNCHANGED <<syncInProgress, listeners, timers, now, netInfoListener, passwords, users,
                 sync_queue, nextQueueId, cyc, wr, started, marks>>

\* destroy(): unsubscribeNetInfo() and listeners = []; the timers that are
\* pending and the invocations of performSync that are under way stay
Destroy ==
  /\ netInfoListener' = FALSE
  /\ listeners' = <<>>
  /\ last' = Ret("destroy", "ok")
  /\ UNCHANGED <<isOnline, syncInProgress, timers, now, passwords, users,
                 sync_queue, nextQueueId, cyc, wr, started, marks>>

\* the entry guard without its offline check
EntryGuardNoOffline(force) ==
  IF syncInProgress /\ ~force THEN "busy" ELSE "run"

\* the two early returns of performSync
EntryGuard(force) ==
  IF syncInProgress /\ ~force THEN "busy"
  ELSE IF ~isOnline THEN "offline"
  ELSE "run"

\* performSync(force) up to its first await (getSyncQueue)
PerformSyncEntry(force, origin) ==
  LET g == EntryGuard(force)
      c == NextSlot
  IN  IF g # "run"
      THEN /\ last' = [Ret("performSync", g) EXCEPT !.force = force, !.arg = origin]
           /\ UNCHANGED <<syncInProgress, listeners, cyc, started>>
      ELSE /\ c # 0
           /\ syncInProgress' = TRUE
           /\ started' = started + 1
           /\ listeners' = Deliver(listeners).listeners
           /\ IF NotifyThrows
              THEN \* notifyListeners({syncInProgress: true}) throws before the try
                   /\ cyc' = [cyc EXCEPT ![c] = IdleCyc]
                   /\ last' = [Ret("performSync", "threw") EXCEPT
                                 !.force = force, !.arg = origin, !.c = c,
                                 !.events = << <<"syncInProgress", 1, 0>> >>,
                                 !.recv = Deliver(listeners).recv]
              ELSE /\ cyc' = [cyc EXCEPT ![c] = [IdleCyc EXCEPT !.pc = "getQueue",
                                                                !.force = force]]
                   /\ last' = [Ret("performSync", "started") EXCEPT
                                 !.force = force, !.arg = origin, !.c = c,
                                 !.events = << <<"syncInProgress", 1, 0>> >>,
                                 !.recv = Deliver(listeners).recv]

\* SyncService.performSync(force) called by the presentation layer
ManualSync(force) ==
  /\ PerformSyncEntry(force, "manual")
  /\ UNCHANGED <<isOnline, timers, now, netInfoListener, passwords, users, sync_queue,
                 nextQueueId, wr, marks>>

\* setTimeout(() => this.performSync(), 1000) fires
TimerFire ==
  /\ timers > 0
  /\ timers' = timers - 1
  /\ PerformSyncEntry(FALSE, "timer")
  /\ UNCHANGED <<isOnline, now, netInfoListener, passwords, users, sync_queue,
                 nextQueueId, wr, marks>>

\* processSyncItem: the switch on table_name up to the first suspension that
\* the engine can observe.  syncPassword first awaits getCurrentUser(), which
\* reads and writes nothing of the engine or the store: its outcome (user) is
\* drawn when the item starts; no user throws 'No authenticated user found'
ItemPc(item, user) ==
  CASE item.table_name = "users" ->
         IF item.operation = "INSERT" THEN "gateway" ELSE "remove"
    [] item.table_name = "passwords" -> IF user THEN "gateway" ELSE "incr"
    [] OTHER -> "remove"

\* the for loop takes item i of the snapshot; an item that throws is counted
\* by the catch block (failedCount++) before the await of the attempts update
StartItem(r, user) ==
  LET pc == ItemPc(r.snap[r.i], user)
  IN  [r EXCEPT !.pc = pc, !.failedCount = IF pc = "incr" THEN @ + 1 ELSE @]

\* what performSync hands back when it ends
SyncEnd(c, r, result, events) ==
  [L0 EXCEPT !.op = "syncEnd", !.c = c, !.force = r.force, !.result = result,
             !.events = events, !.snap = r.snap, !.log = r.log, !.i = r.i,
             !.syncedCount = r.syncedCount, !.failedCount = r.failedCount,
             !.recv = Deliver(listeners).recv, !.faults = r.faults]

\* the end of the try body, then finally: notify syncCompleted, return
\* success, reset the flag, notify syncInProgress false; a throwing subscriber
\* sends the first notify to the catch block (notify syncFailed)
Complete(c, r) ==
  /\ cyc' = [cyc EXCEPT ![c] = IdleCyc]
  /\ syncInProgress' = FALSE
  /\ listeners' = Passes(listeners, IF NotifyThrows THEN 3 ELSE 2)
  /\ last' = IF NotifyThrows
             THEN SyncEnd(c, r, "threw",
                          << <<"syncCompleted", r.syncedCount, r.failedCount>>,
                             <<"syncFailed", 0, 0>>, <<"syncInProgress", 0, 0>> >>)
             ELSE SyncEnd(c, r, "completed",
                          << <<"syncCompleted", r.syncedCount, r.failedCount>>,
                             <<"syncInProgress", 0, 0>> >>)

\* an exception reaches the catch of performSync: notify syncFailed, return
\* success false, then finally
Abort(c, r) ==
  /\ cyc' = [cyc EXCEPT ![c] = IdleCyc]
  /\ syncInProgress' = FALSE
  /\ listeners' = Passes(listeners, 2)
  /\ last' = SyncEnd(c, r, IF NotifyThrows THEN "threw" ELSE "failed",
                     << <<"syncFailed", 0, 0>>, <<"syncInProgress", 0, 0>> >>)

\* the for loop goes on with the next item (user: what getCurrentUser gives
\* if the item is a password), or the try body ends
After(c, r, user) ==
  IF r.i < Len(r.snap)
  THEN /\ cyc' = [cyc EXCEPT ![c] = StartItem([r EXCEPT !.i = @ + 1], user)]
       /\ last' = Step
       /\ UNCHANGED <<syncInProgress, listeners>>
  ELSE Complete(c, r)

\* await DatabaseService.getSyncQueue(): a store failure is swallowed and
\* gives the empty array; order: the row order the SELECT returned
GetSyncQueue(c, ok, order, user) ==
  LET snap == IF ok THEN [k \in 1..Len(order) |-> ParseItem(order[k])] ELSE <<>>
      r == [cyc[c] EXCEPT !.snap = snap, !.i = 0,
                          !.log = [k \in 1..Len(snap) |-> "none"],
                          !.faults = IF ok THEN @ ELSE @ \cup {"getSyncQueue"}]
  IN  /\ cyc[c].pc = "getQueue"
      /\ order \in Orderings(sync_queue)
      /\ After(c, r, user)
      /\ UNCHANGED <<isOnline, timers, now, netInfoListener, passwords, users,
                     sync_queue, nextQueueId, wr, started, marks>>

\* does the remote call of the item end in an exception for the drain loop?
\* passwords: anything but a 2xx with a JSON body throws; users: saveUserToDB
\* returns {success: false} for a non-2xx response and syncUser ignores it
GatewayThrows(item, resp) ==
  IF item.table_name = "users"
  THEN resp \in {"ok_empty", "transport"}
  ELSE resp # "ok_json"

\* is markAsSynced called after the remote call?
MarksSynced(item, resp) ==
  IF item.table_name = "users"
  THEN resp = "ok_json"
  ELSE item.operation \in {"INSERT", "UPDATE"}

\* the fetch of saveUserToDB / createPasswordOnServer / updatePasswordOnServer
\* / deletePasswordOnServer returns
Gateway(c, resp) ==
  LET r == cyc[c]
      item == r.snap[r.i]
      l == [r EXCEPT !.log[r.i] = IF resp \in {"ok_json", "ok_empty"}
                                  THEN "ok" ELSE "fail"]
  IN  /\ r.pc = "gateway"
      /\ cyc' = [cyc EXCEPT ![c] =
                   IF GatewayThrows(item, resp)
                   THEN [l EXCEPT !.pc = "incr", !.failedCount = @ + 1]
                   ELSE IF MarksSynced(item, resp) THEN [l EXCEPT !.pc = "mark"]
                   ELSE [l EXCEPT !.pc = "remove"]]
      /\ last' = Step
      /\ UNCHANGED <<isOnline, syncInProgress, listeners, timers, now, netInfoListener, passwords,
                     users, sync_queue, nextQueueId, wr, started, marks>>

\* await DatabaseService.markAsSynced(table, recordId); a store failure is
\* swallowed
MarkAsSynced(c, ok) ==
  LET r == cyc[c]
      item == r.snap[r.i]
  IN  /\ r.pc = "mark"
      /\ passwords' = IF ok /\ item.table_name = "passwords"
                      THEN SetSynced(passwords, item.record_id) ELSE passwords
      /\ users' = IF ok /\ item.table_name = "users"
                  THEN SetSynced(users, item.record_id) ELSE users
      /\ marks' = [marks EXCEPT ![item.id] = IF @ < MaxMarks THEN @ + 1 ELSE @]
      /\ cyc' = [cyc EXCEPT ![c].pc = "remove",
                            ![c].faults = IF ok THEN @ ELSE @ \cup {"markAsSynced"}]
      /\ last' = Step
      /\ UNCHANGED <<isOnline, syncInProgress, listeners, timers, now, netInfoListener,
                     sync_queue, nextQueueId, wr, started>>

\* await DatabaseService.removeSyncQueueItem(item.id); syncedCount++; a store
\* failure is swallowed
RemoveSyncQueueItem(c, ok, user) ==
  LET r == cyc[c]
      item == r.snap[r.i]
  IN  /\ r.pc = "remove"
      /\ sync_queue' = IF ok THEN DeleteRow(sync_queue, item.id) ELSE sync_queue
      /\ After(c, [r EXCEPT !.syncedCount = @ + 1,
                            !.faults = IF ok THEN @
                                       ELSE @ \cup {"removeSyncQueueItem"}], user)
      /\ UNCHANGED <<isOnline, timers, now, netInfoListener, passwords, users,
                     nextQueueId, wr, started, marks>>

\* the item's catch block: await db.executeSql('UPDATE sync_queue SET attempts
\* = attempts + 1 WHERE id = ?'); a store failure here leaves the for loop
IncrementAttempts(c, ok, user) ==
  LET r == cyc[c]
      item == r.snap[r.i]
  IN  /\ r.pc = "incr"
      /\ sync_queue' = IF ok THEN BumpAttempts(sync_queue, item.id) ELSE sync_queue
      /\ IF ok THEN After(c, r, user)
         ELSE Abort(c, [r EXCEPT !.faults = @ \cup {"attempts"}])
      /\ UNCHANGED <<isOnline, timers, now, netInfoListener, passwords, users,
                     nextQueueId, wr, started, marks>>

\* ============================ specifications ===========================
\* Spec is the whole program: every operation with every input.  SpecStore,
\* SpecDrain, SpecForce and SpecEngine are Spec with part of the operations
\* and inputs, so every behaviour of one of them is a behaviour of Spec.
Next ==
  \/ \E d \in PasswordData, ok \in BOOLEAN : SavePasswordWrite(d, ok)
  \/ \E id \in 1..MaxRecords, d \in PasswordData, ok \in BOOLEAN : UpdatePasswordWrite(id, d, ok)
  \/ \E id \in 1..MaxRecords, ok \in BOOLEAN : DeletePasswordWrite(id, ok)
  \/ \E ok \in BOOLEAN : WriteEnqueue(ok)
  \/ \E ok \in BOOLEAN : GetPasswords(ok)
  \/ \E u \in UserInfos, ok \in BOOLEAN : SaveUserOffline(u, ok)
  \/ \E in \in DirectEnqueues, ok \in BOOLEAN : DirectAddToSyncQueue(in, ok)
  \/ Tick
  \/ \E cb \in Callbacks : Subscribe(cb)
  \/ \E cb \in Callbacks : Unsubscribe(cb)
  \/ \E connected \in BOOLEAN : NetInfoEvent(connected)
  \/ \E probe \in {"true", "false", "error"} : CheckOnlineStatus(probe)
  \/ Destroy
  \/ \E force \in BOOLEAN : ManualSync(force)
  \/ TimerFire
  \/ \E c \in Cycles, ok \in BOOLEAN, user \in BOOLEAN :
       \E order \in Orderings(sync_queue) : GetSyncQueue(c, ok, order, user)
  \/ \E c \in Cycles, resp \in Responses : Gateway(c, resp)
  \/ \E c \in Cycles, ok \in BOOLEAN : MarkAsSynced(c, ok)
  \/ \E c \in Cycles, ok \in BOOLEAN, user \in BOOLEAN : RemoveSyncQueueItem(c, ok, user)
  \/ \E c \in Cycles, ok \in BOOLEAN, user \in BOOLEAN : IncrementAttempts(c, ok, user)

Spec == Init /\ [][Next]_vars

\* SpecStore: the write API of DatabaseService alone, with store failures
NextStore ==
  \/ \E d \in DrainData, ok \in BOOLEAN : FewRecords /\ SavePasswordWrite(d, ok)
  \/ \E id \in 1..DrainRecords, d \in DrainData, ok \in BOOLEAN : FewEntries /\ UpdatePasswordWrite(id, d, ok)
  \/ \E id \in 1..DrainRecords, ok \in BOOLEAN : FewEntries /\ DeletePasswordWrite(id, ok)
  \/ \E ok \in BOOLEAN : WriteEnqueue(ok)
  \/ \E u \in UserInfos, ok \in BOOLEAN : SaveUserOffline(u, ok)
  \/ \E in \in DirectEnqueues, ok \in BOOLEAN : FewEntries /\ DirectAddToSyncQueue(in, ok)
  \/ Tick

SpecStore == Init /\ [][NextStore]_vars

\* SpecDrain: unforced drain cycles, one after the other, over every kind of
\* queue entry, with every gateway response, store failures inside the cycle
\* and local writes (which succeed) going on beside the cycle
NextDrain ==
  \/ \E d \in DrainData : FewRecords /\ SavePasswordWrite(d, TRUE)
  \/ \E id \in 1..DrainRecords, d \in DrainData : FewEntries /\ UpdatePasswordWrite(id, d, TRUE)
  \/ \E id \in 1..DrainRecords : FewEntries /\ DeletePasswordWrite(id, TRUE)
  \/ WriteEnqueue(TRUE)
  \/ \E in \in DirectEnqueues : FewEntries /\ DirectAddToSyncQueue(in, TRUE)
  \/ Tick
  \/ CheckOnlineStatus("true")
  \/ ManualSync(FALSE)
  \/ \E c \in Cycles, ok \in BOOLEAN, user \in BOOLEAN :
       \E order \in Orderings(sync_queue) : GetSyncQueue(c, ok, order, user)
  \/ \E c \in Cycles, resp \in Responses : Gateway(c, resp)
  \/ \E c \in Cycles, ok \in BOOLEAN : MarkAsSynced(c, ok)
  \/ \E c \in Cycles, ok \in BOOLEAN, user \in BOOLEAN : RemoveSyncQueueItem(c, ok, user)
  \/ \E c \in Cycles, ok \in BOOLEAN, user \in BOOLEAN : IncrementAttempts(c, ok, user)

SpecDrain == Init /\ [][NextDrain]_vars

\* SpecForce: forced and unforced cycles that overlap, over password entries
\* written beside the cycles, with a store that does not fail, a signed-in
\* user and a gateway that answers 2xx with JSON or fails
NextForce ==
  \/ \E d \in DrainData : FewRecords /\ SavePasswordWrite(d, TRUE)
  \/ \E id \in 1..DrainRecords, d \in DrainData : FewEntries /\ UpdatePasswordWrite(id, d, TRUE)
  \/ \E id \in 1..DrainRecords : FewEntries /\ DeletePasswordWrite(id, TRUE)
  \/ WriteEnqueue(TRUE)
  \/ CheckOnlineStatus("true")
  \/ \E force \in BOOLEAN : ManualSync(force)
  \/ \E c \in Cycles :
       \E order \in Orderings(sync_queue) : GetSyncQueue(c, TRUE, order, TRUE)
  \/ \E c \in Cycles, resp \in {"ok_json", "transport"} : Gateway(c, resp)
  \/ \E c \in Cycles : MarkAsSynced(c, TRUE)
  \/ \E c \in Cycles : RemoveSyncQueueItem(c, TRUE, TRUE)
  \/ \E c \in Cycles : IncrementAttempts(c, TRUE, TRUE)

SpecForce == Init /\ [][NextForce]_vars

\* SpecEngine: the entry guard, the connectivity monitor and the broadcaster
\* with every input, over a queue filled by savePassword
NextEngine ==
  \/ \E d \in DrainData : FewRecords /\ SavePasswordWrite(d, TRUE)
  \/ WriteEnqueue(TRUE)
  \/ \E cb \in {"ui", "bad"} : Len(listeners) < EngineListeners /\ Subscribe(cb)
  \/ \E cb \in {"ui", "bad"} : Unsubscribe(cb)
  \/ \E connected \in BOOLEAN : NetInfoEvent(connected)
  \/ \E probe \in {"true", "false", "error"} : CheckOnlineStatus(probe)
  \/ \E force \in BOOLEAN : ManualSync(force)
  \/ TimerFire
  \/ \E c \in Cycles :
       \E order \in Orderings(sync_queue) : GetSyncQueue(c, TRUE, order, TRUE)
  \/ \E c \in Cycles, resp \in {"ok_json", "transport"} : Gateway(c, resp)
  \/ \E c \in Cycles : MarkAsSynced(c, TRUE)
  \/ \E c \in Cycles : RemoveSyncQueueItem(c, TRUE, TRUE)
  \/ \E c \in Cycles, ok \in BOOLEAN : IncrementAttempts(c, ok, TRUE)

SpecEngine == Init /\ [][NextEngine]_vars

\* SpecDeliver: repeated unforced drain cycles while the device stays online,
\* the store works, a user is signed in and every gateway call answers 2xx
\* with a JSON body; entries come from the write API and from addToSyncQueue
DeliverEnqueues == DirectEnqueues \cup {<<"users", "UPDATE", "alice">>}

NextDeliver ==
  \/ \E d \in DrainData : FewRecords /\ SavePasswordWrite(d, TRUE)
  \/ \E id \in 1..DrainRecords, d \in DrainData : FewEntries /\ UpdatePasswordWrite(id, d, TRUE)
  \/ \E id \in 1..DrainRecords : FewEntries /\ DeletePasswordWrite(id, TRUE)
  \/ WriteEnqueue(TRUE)
  \/ \E in \in DeliverEnqueues : FewEntries /\ DirectAddToSyncQueue(in, TRUE)
  \/ Tick
  \/ CheckOnlineStatus("true")
  \/ ManualSync(FALSE)
  \/ \E c \in Cycles :
       \E order \in Orderings(sync_queue) : GetSyncQueue(c, TRUE, order, TRUE)
  \/ \E c \in Cycles : Gateway(c, "ok_json")
  \/ \E c \in Cycles : MarkAsSynced(c, TRUE)
  \/ \E c \in Cycles : RemoveSyncQueueItem(c, TRUE, TRUE)

SpecDeliver == Init /\ [][NextDeliver]_vars

\* SpecLocal: the write API and getPasswords over two records, with store
\* failures, while the device goes online and offline and unforced cycles
\* drain the queue
NextLocal ==
  \/ \E d \in PasswordData, ok \in BOOLEAN : SavePasswordWrite(d, ok)
  \/ \E id \in 1..MaxRecords, d \in PasswordData, ok \in BOOLEAN :
       UpdatePasswordWrite(id, d, ok)
  \/ \E id \in 1..MaxRecords, ok \in BOOLEAN : DeletePasswordWrite(id, ok)
  \/ WriteEnqueue(TRUE)
  \/ \E ok \in BOOLEAN : GetPasswords(ok)
  \/ \E probe \in {"true", "false"} : CheckOnlineStatus(probe)
  \/ started < LocalCycles /\ ManualSync(FALSE)
  \/ \E c \in Cycles :
       \E order \in Orderings(sync_queue) : GetSyncQueue(c, TRUE, order, TRUE)
  \/ \E c \in Cycles : Gateway(c, "ok_json")
  \/ \E c \in Cycles : MarkAsSynced(c, TRUE)
  \/ \E c \in Cycles : RemoveSyncQueueItem(c, TRUE, TRUE)

SpecLocal == Init /\ [][NextLocal]_vars

\* a store call or a remote call that invocation c awaits returns, with
\* success or with failure
CycleStep(c) ==
  \/ \E ok \in BOOLEAN :
       \E order \in Orderings(sync_queue) : GetSyncQueue(c, ok, order, TRUE)
  \/ \E resp \in Responses : Gateway(c, resp)
  \/ \E ok \in BOOLEAN : MarkAsSynced(c, ok)
  \/ \E ok \in BOOLEAN : RemoveSyncQueueItem(c, ok, TRUE)
  \/ \E ok \in BOOLEAN : IncrementAttempts(c, ok, TRUE)

\* SpecLive: forced and unforced cycles over a queue filled by savePassword,
\* with subscribers that come and go; every call a cycle awaits returns in
\* the end (weak fairness of the step of each invocation), while nothing
\* obliges the user to call anything
NextLive ==
  \/ \E d \in DrainData : FewRecords /\ SavePasswordWrite(d, TRUE)
  \/ WriteEnqueue(TRUE)
  \/ \E cb \in {"ui", "bad"} : Len(listeners) < EngineListeners /\ Subscribe(cb)
  \/ \E cb \in {"ui", "bad"} : Unsubscribe(cb)
  \/ \E probe \in {"true", "false"} : CheckOnlineStatus(probe)
  \/ \E force \in BOOLEAN : ManualSync(force)
  \/ \E c \in Cycles : CycleStep(c)

SpecLive ==
  Init /\ [][NextLive]_vars /\ \A c \in Cycles : WF_vars(CycleStep(c))

\* SpecDestroy: the service is used and then destroyed: subscribers, network
\* events, the reconnect timer and unforced cycles over a queue filled by
\* savePassword, with destroy() called at any moment (nobody subscribes to a
\* service that has been destroyed)
NextDestroy ==
  \/ \E d \in DrainData : FewRecords /\ SavePasswordWrite(d, TRUE)
  \/ WriteEnqueue(TRUE)
  \/ netInfoListener /\ Len(listeners) < EngineListeners /\ Subscribe("ui")
  \/ Unsubscribe("ui")
  \/ \E connected \in BOOLEAN : NetInfoEvent(connected)
  \/ Destroy
  \/ ManualSync(FALSE)
  \/ TimerFire
  \/ \E c \in Cycles :
       \E order \in Orderings(sync_queue) : GetSyncQueue(c, TRUE, order, TRUE)
  \/ \E c \in Cycles, resp \in {"ok_json", "transport"} : Gateway(c, resp)
  \/ \E c \in Cycles : MarkAsSynced(c, TRUE)
  \/ \E c \in Cycles : RemoveSyncQueueItem(c, TRUE, TRUE)
  \/ \E c \in Cycles : IncrementAttempts(c, TRUE, TRUE)

SpecDestroy == Init /\ [][NextDestroy]_vars

\* SpecScenario: the two-cycle scenario: savePassword and updatePassword of
\* record 1 leave a create entry (id 1) and an update entry (id 2); the
\* gateway accepts the create, rejects the update the first time it is sent
\* and accepts it afterwards; the store works and a user is signed in
ScenarioAnswers(item) ==
  IF item.operation = "UPDATE" /\ item.attempts = 0
  THEN {"non2xx", "transport"}
  ELSE {"ok_json"}

NextScenario ==
  \/ \E d \in DrainData : passwords = <<>> /\ SavePasswordWrite(d, TRUE)
  \/ \E d \in DrainData : nextQueueId = 2 /\ UpdatePasswordWrite(1, d, TRUE)
  \/ WriteEnqueue(TRUE)
  \/ Tick
  \/ CheckOnlineStatus("true")
  \/ ManualSync(FALSE)
  \/ \E c \in Cycles :
       \E order \in Orderings(sync_queue) : GetSyncQueue(c, TRUE, order, TRUE)
  \/ \E c \in Cycles, resp \in Responses :
       /\ cyc[c].pc = "gateway"
       /\ resp \in ScenarioAnswers(cyc[c].snap[cyc[c].i])
       /\ Gateway(c, resp)
  \/ \E c \in Cycles : MarkAsSynced(c, TRUE)
  \/ \E c \in Cycles : RemoveSyncQueueItem(c, TRUE, TRUE)
  \/ \E c \in Cycles : IncrementAttempts(c, TRUE, TRUE)

SpecScenario == Init /\ [][NextScenario]_vars

\* SpecNotify: the status broadcaster with every kind of subscriber: network
\* events and drain cycles over an empty queue broadcast to up to MaxListeners
\* subscribers
NextNotify ==
  \/ \E cb \in Callbacks : Subscribe(cb)
  \/ \E cb \in Callbacks : Unsubscribe(cb)
  \/ \E connected \in BOOLEAN : NetInfoEvent(connected)
  \/ ManualSync(FALSE)
  \/ TimerFire
  \/ \E c \in Cycles :
       \E order \in Orderings(sync_queue) : GetSyncQueue(c, TRUE, order, TRUE)

SpecNotify == Init /\ [][NextNotify]_vars

TypeOK ==
  /\ isOnline \in BOOLEAN
  /\ netInfoListener \in BOOLEAN
  /\ syncInProgress \in BOOLEAN
  /\ timers \in 0..MaxTimers
  /\ now \in 0..MaxTime
  /\ Len(listeners) <= MaxListeners
  /\ nextQueueId \in 1..(MaxEntries + 1)
  /\ started \in 0..MaxCycles
  /\ \A id \in 1..MaxEntries : marks[id] \in 0..MaxMarks

\* ============================== properties =============================
SnapIds(r) == {r.snap[k].id : k \in 1..Len(r.snap)}

LocalWrites == {"saveUserOffline", "savePassword", "updatePassword", "deletePassword"}

\* the table a write API call writes to
TableOf(op) == IF op = "saveUserOffline" THEN "users" ELSE "passwords"

\* the operation kind of the queue entry a write is to leave
KindOf(op) ==
  CASE op \in {"saveUserOffline", "savePassword"} -> "INSERT"
    [] op = "updatePassword" -> "UPDATE"
    [] op = "deletePassword" -> "DELETE"

\* C1: when a drain cycle ends, an entry of its snapshot is gone from the queue
\* if and only if the remote call made for it returned success (2xx); an entry
\* whose call failed or for which no call was made is still queued
C1_RemovedIffRemoteSuccess ==
  last.op = "syncEnd" =>
    \A k \in 1..Len(last.snap) :
      (last.log[k] = "ok") <=> (last.snap[k].id \notin QueueIds)

\* C2: when a local write of a syncable entity returns successfully, it has
\* appended one sync_queue entry that references the written record with the
\* matching operation kind
C2_WriteAppendsEntry ==
  (last.op \in LocalWrites /\ last.result = "ok") =>
    \E e \in sync_queue :
      /\ e.id = last.enq
      /\ e.table_name = TableOf(last.op)
      /\ e.record_id = last.rid
      /\ e.operation = KindOf(last.op)

\* C3: a local write is atomic over the passwords table and the sync queue:
\* once no write is under way, every passwords row has its INSERT entry, every
\* row with deleted = 1 has its DELETE entry, and every passwords entry of the
\* queue refers to a row (no drain runs in SpecStore, so entries only get added)
C3_WriteAtomic ==
  wr.pc = "idle" =>
    /\ \A id \in 1..Len(passwords) :
         /\ \E e \in sync_queue : e.table_name = "passwords" /\ e.record_id = id
                                  /\ e.operation = "INSERT"
         /\ passwords[id].deleted = 1 =>
              \E e \in sync_queue : e.table_name = "passwords" /\ e.record_id = id
                                    /\ e.operation = "DELETE"
    /\ \A e \in sync_queue :
         e.table_name = "passwords" => e.record_id \in 1..Len(passwords)

\* what a call of performSync that returns at the entry guard leaves alone
GuardFrame ==
  /\ last'.events = <<>>
  /\ UNCHANGED <<isOnline, syncInProgress, listeners, passwords, users,
                 sync_queue, nextQueueId, cyc, wr>>

\* C4: performSync(false), from the manual trigger or from the reconnect timer,
\* while a drain cycle is running returns the busy result, broadcasts nothing,
\* starts no cycle (so no gateway call) and changes neither queue nor records
\* (stated for a device that is online; offline is the case of C5)
C4_BusyWhileCycleRuns ==
  [][(/\ last'.op = "performSync" /\ ~last'.force
      /\ isOnline /\ \E c \in Cycles : Active(c))
       => (last'.result = "busy" /\ GuardFrame)]_vars

\* C5 as stated: performSync while isOnline is false returns the offline
\* result, whatever force is, broadcasts nothing, starts no cycle and changes
\* neither the queue nor the flag
C5_OfflineAlwaysOfflineResult ==
  [][(last'.op = "performSync" /\ ~isOnline)
       => (last'.result = "offline" /\ GuardFrame)]_vars

\* C5 amended: performSync while isOnline is false starts no cycle, broadcasts
\* nothing and changes nothing; it returns the offline result when force is
\* true or the flag is false, and the busy result when the flag is true and
\* force is false (the busy check comes first)
C5_OfflineShortCircuit ==
  [][(last'.op = "performSync" /\ ~isOnline)
       => /\ last'.result = IF syncInProgress /\ ~last'.force THEN "busy" ELSE "offline"
          /\ GuardFrame]_vars

\* C5 witness: a forced performSync has just returned the offline result while
\* the flag was set
C5_Witness ==
  /\ last.op = "performSync" /\ last.result = "offline" /\ last.force
  /\ ~isOnline /\ syncInProgress

\* C6: after any outcome of a call that passed the entry guard (the cycle
\* completed, failed, or an exception left performSync, the one thrown by the
\* progress-start broadcast included) the in-progress flag is false
C6_IdleAfterAnyOutcome ==
  (last.op = "syncEnd" \/ (last.op = "performSync" /\ last.result = "threw"))
    => ~syncInProgress

\* C7: when a cycle ends, an entry whose gateway call failed in it is still
\* queued with the same record_id and operation and attempts one above the
\* value the cycle read, and an entry whose gateway call succeeded, if still
\* queued, has the attempts the cycle read
C7_FailedEntryRetried ==
  last.op = "syncEnd" =>
    \A k \in 1..Len(last.snap) :
      /\ last.log[k] = "fail" =>
           \E e \in sync_queue :
             /\ e.id = last.snap[k].id
             /\ e.record_id = last.snap[k].record_id
             /\ e.operation = last.snap[k].operation
             /\ e.attempts = last.snap[k].attempts + 1
      /\ last.log[k] = "ok" =>
           \A e \in sync_queue :
             e.id = last.snap[k].id => e.attempts = last.snap[k].attempts

\* C8: in the array a cycle drains, two entries of the same (table_name,
\* record_id) stand in the order they were created (AUTOINCREMENT id)
C8_CreationOrder ==
  \A c \in Cycles : \A a, b \in 1..Len(cyc[c].snap) :
    (/\ a < b
     /\ cyc[c].snap[a].table_name = cyc[c].snap[b].table_name
     /\ cyc[c].snap[a].record_id = cyc[c].snap[b].record_id)
      => cyc[c].snap[a].id < cyc[c].snap[b].id

\* C9: a cycle in which a gateway call failed still took every entry of its
\* snapshot to processSyncItem before it ended
C9_FailureDoesNotAbort ==
  (last.op = "syncEnd" /\ \E k \in 1..Len(last.snap) : last.log[k] = "fail")
    => last.i = Len(last.snap)

\* has invocation c read its snapshot and not yet ended?
Draining(c) == cyc[c].pc \in {"gateway", "mark", "remove", "incr"}

\* C10 as stated: a row that is in the queue but not in the snapshot of a
\* running cycle (it was enqueued after the cycle read the queue) is still in
\* the queue after every step taken until that cycle has ended
C10_LateEntryStaysQueued ==
  [][\A c \in Cycles : Draining(c) =>
       \A e \in sync_queue :
         e.id \notin SnapIds(cyc[c]) => \E f \in sync_queue' : f.id = e.id]_vars

\* C10 amended: a cycle reads the queue once (its snapshot never changes), and
\* a row enqueued after that is never removed or attempt-incremented by this
\* cycle: only the store step of another, overlapping cycle that holds the row
\* in its own snapshot changes it
C10_LateEntryNotTouchedByCycle ==
  [][\A c \in Cycles : Draining(c) =>
       /\ cyc'[c].pc # "idle" => cyc'[c].snap = cyc[c].snap
       /\ \A e \in sync_queue :
            (e.id \notin SnapIds(cyc[c]) /\ e \notin sync_queue') =>
              \E d \in Cycles :
                /\ d # c
                /\ cyc[d].pc \in {"remove", "incr"}
                /\ cyc[d].snap[cyc[d].i].id = e.id
                /\ cyc'[d] # cyc[d]]_vars

\* C10 witness: a cycle that drained a snapshot has ended and the queue holds
\* an untouched row that was not in that snapshot
C10_Witness ==
  /\ last.op = "syncEnd" /\ Len(last.snap) > 0
  /\ \E e \in sync_queue : e.id \notin SnapIds(last) /\ e.attempts = 0

\* the entity types processSyncItem has a case for
KnownTables == {"users", "passwords"}

\* C11: when a drain cycle ends, an entry of its snapshot whose table_name is
\* not a known entity type is still queued, with the attempts the cycle read
C11_UnknownTypeStaysQueued ==
  last.op = "syncEnd" =>
    \A k \in 1..Len(last.snap) :
      last.snap[k].table_name \notin KnownTables =>
        \E e \in sync_queue : /\ e.id = last.snap[k].id
                              /\ e.attempts = last.snap[k].attempts

\* C12: exactly one markAsSynced call is made on account of an INSERT or
\* UPDATE entry: never more than one, and when a cycle ends every INSERT or
\* UPDATE entry of its snapshot that it removed has had one
C12_RemovedAfterOneMarkAsSynced ==
  /\ \A id \in 1..MaxEntries : marks[id] <= 1
  /\ last.op = "syncEnd" =>
       \A k \in 1..Len(last.snap) :
         (/\ last.snap[k].operation \in {"INSERT", "UPDATE"}
          /\ last.snap[k].id \notin QueueIds)
           => marks[last.snap[k].id] = 1

\* C13: the two-cycle scenario.  A cycle that read the create entry (id 1) and
\* the fresh update entry (id 2) returns syncedCount 1 and failedCount 1 and
\* leaves exactly entry 2 with attempts 1; a cycle that then reads entry 2 with
\* attempts 1 returns syncedCount 1 and failedCount 0, leaves the queue empty
\* and record 1 has synced = 1
C13_TwoCycleScenario ==
  last.op = "syncEnd" =>
    /\ (/\ SnapIds(last) = {1, 2}
        /\ \A k \in 1..Len(last.snap) : last.snap[k].attempts = 0)
         => /\ last.result = "completed"
            /\ last.syncedCount = 1 /\ last.failedCount = 1
            /\ QueueIds = {2}
            /\ \A e \in sync_queue :
                 e.attempts = 1 /\ e.operation = "UPDATE" /\ e.record_id = 1
    /\ (/\ SnapIds(last) = {2}
        /\ \A k \in 1..Len(last.snap) : last.snap[k].attempts = 1)
         => /\ last.result = "completed"
            /\ last.syncedCount = 1 /\ last.failedCount = 0
            /\ sync_queue = {}
            /\ passwords[1].synced = 1

\* C13 witness: the second of exactly two cycles has ended: it read entry 2
\* with attempts 1, the queue is empty and record 1 is synced
C13_Witness ==
  /\ last.op = "syncEnd" /\ started = 2
  /\ SnapIds(last) = {2} /\ last.snap[1].attempts = 1
  /\ last.syncedCount = 1 /\ last.failedCount = 0
  /\ sync_queue = {} /\ passwords[1].synced = 1

\* C14: every change of isOnline from false to true, seen by the NetInfo
\* listener or by checkOnlineStatus, schedules the automatic performSync (the
\* one-second timer)
C14_ReconnectSchedulesSync ==
  [][(~isOnline /\ isOnline') => timers' = timers + 1]_vars

\* the item at hand threw 'No authenticated user found' before any remote call
Unauthenticated(r) == r.pc = "incr" /\ r.log[r.i] = "none"

\* C15: a cycle that finds no authenticated identity has no side effect on the
\* queue: no entry is removed and no attempts counter changes
C15_UnauthenticatedNoSideEffect ==
  [][\A c \in Cycles : Unauthenticated(cyc[c]) =>
       \A e \in sync_queue : e \in sync_queue']_vars

\* C16: a non-2xx response or a transport failure of the remote call of an
\* entry reaches the drain loop as a failure: the cycle goes to the item's
\* catch block (failedCount, attempts increment), never on to markAsSynced or
\* to the removal of the entry
C16_RemoteFailureSurfaces ==
  \A c \in Cycles :
    (Draining(c) /\ cyc[c].log[cyc[c].i] = "fail") => cyc[c].pc = "incr"

\* C17: a passwords record with synced = 1 has no pending queue entry, apart
\* from the entry a cycle has just marked and is about to remove
C17_SyncedMeansNothingPending ==
  \A id \in 1..Len(passwords) :
    passwords[id].synced = 1 =>
      \A e \in sync_queue :
        (e.table_name = "passwords" /\ e.record_id = id) =>
          \E c \in Cycles : /\ cyc[c].pc = "remove"
                            /\ cyc[c].snap[cyc[c].i].id = e.id

\* C20: the connectivity monitor is edge-triggered: a step that changes
\* isOnline publishes one isOnline event with the new value, and a network
\* event or probe that reports the current value publishes nothing
C20_EdgeTriggered ==
  [][IF isOnline' # isOnline
     THEN last'.events = << <<"isOnline", B2N(isOnline'), 0>> >>
     ELSE last'.op \in {"netinfo", "checkOnlineStatus"} => last'.events = <<>>]_vars

\* the callbacks subscribed in ls
Subscribed(ls) == {ls[k] : k \in 1..Len(ls)}

\* C18: when a subscriber callback throws during a broadcast, the event still
\* reaches every subscriber, in subscription order, and the thrower stays
\* subscribed
C18_ThrowDoesNotStopDelivery ==
  [][(last'.events # <<>> /\ NotifyThrows)
       => (last'.recv = listeners /\ "bad" \in Subscribed(listeners'))]_vars

\* C19: when a callback unsubscribes itself or another subscriber during a
\* delivery pass, the pass still calls every subscriber that was registered
\* when it began, in order, and the removed subscriber is not subscribed
\* afterwards
C19_UnsubscribeDuringDelivery ==
  [][(/\ last'.op \in {"netinfo", "performSync"}
      /\ last'.events # <<>>
      /\ Subscribed(last'.recv) \cap {"once", "kick"} # {})
       => /\ last'.recv = listeners
          /\ "once" \notin Subscribed(listeners')
          /\ "kick" \in Subscribed(last'.recv) => "ui" \notin Subscribed(listeners')]_vars

\* C21: a cycle in which a call of the local store failed (the read of the
\* snapshot, markAsSynced, the removal of an entry, the attempts update) ends
\* with a syncFailed event and success = false, never with syncCompleted
C21_StoreFailureReported ==
  (last.op = "syncEnd" /\ last.faults # {}) =>
    /\ last.result = "failed"
    /\ \A k \in 1..Len(last.events) : last.events[k][1] # "syncCompleted"

\* C22: a cycle that passes the entry guard broadcasts syncInProgress = true
\* when it starts and ends with exactly one of syncCompleted (with its two
\* counts) or syncFailed, followed by syncInProgress = false
C22_EventSequence ==
  /\ (last.op = "performSync" /\ last.result \notin {"busy", "offline"}) =>
       /\ last.result = "started"
       /\ last.events = << <<"syncInProgress", 1, 0>> >>
  /\ last.op = "syncEnd" =>
       \/ /\ last.result = "completed"
          /\ last.events = << <<"syncCompleted", last.syncedCount, last.failedCount>>,
                              <<"syncInProgress", 0, 0>> >>
       \/ /\ last.result = "failed"
          /\ last.events = << <<"syncFailed", 0, 0>>, <<"syncInProgress", 0, 0>> >>

\* the remote calls that are in flight
InFlight == {c \in Cycles : cyc[c].pc = "gateway"}

\* C23 as stated: at most one remote call is in flight in every state
C23_OneCallInFlight == Cardinality(InFlight) <= 1

\* has the invocation with locals r finished every entry before the one at
\* hand, in the queue q?  A call that succeeded is followed by the removal of
\* the row, a call that failed by the attempts increment; no call has been
\* made for a later entry
PrecedingFinished(r, q) ==
  \A k \in 1..Len(r.snap) :
    /\ (k < r.i /\ r.log[k] = "ok") => \A e \in q : e.id # r.snap[k].id
    /\ (k < r.i /\ r.log[k] = "fail") =>
         \A e \in q : e.id = r.snap[k].id => e.attempts > r.snap[k].attempts
    /\ k > r.i => r.log[k] = "none"

\* C23: within one drain cycle the gateway calls are sequential: a cycle
\* starts the call for an entry only from the read of the snapshot or from the
\* bookkeeping (removal, attempts increment) of the entry before it, when the
\* call and the bookkeeping of every preceding entry have finished; cycles
\* that overlap each have at most their own call in flight
C23_SequentialPerCycle ==
  [][\A c \in Cycles :
       (cyc'[c].pc = "gateway" /\ cyc'[c] # cyc[c]) =>
         /\ cyc[c].pc \in {"getQueue", "remove", "incr"}
         /\ cyc'[c].i = (IF cyc[c].pc = "getQueue" THEN 1 ELSE cyc[c].i + 1)
         /\ cyc'[c].log[cyc'[c].i] = "none"
         /\ PrecedingFinished(cyc'[c], sync_queue')]_vars

\* a cycle starts the call for its second entry while the call of another
\* cycle is in flight
C23_Witness ==
  \E c, d \in Cycles :
    /\ c # d
    /\ cyc[c].pc = "gateway" /\ cyc[c].i = 2
    /\ cyc[d].pc = "gateway"

\* C24: a call of performSync that passes the entry guard while another drain
\* cycle is under way was made with force = true
C24_OverlapOnlyForced ==
  [][(started' # started /\ \E c \in Cycles : Active(c)) => last'.force]_vars

\* the rows of a table whose synced flag goes from 0 to 1 in the step
NewlySynced(tbl, tbl2) ==
  {id \in 1..Len(tbl) : tbl[id].synced = 0 /\ tbl2[id].synced = 1}

\* C25: when the remote call of an entry returns success (2xx) the cycle goes
\* on to markAsSynced if and only if the operation is INSERT or UPDATE, which
\* sets synced = 1 on the source record of the entry and on no other, and then
\* removes the entry; no other step sets a synced flag (so a DELETE and a
\* failed call never do)
C25_SuccessEffects ==
  [][/\ \A c \in Cycles :
          LET r == cyc[c]
              item == r.snap[r.i]
          IN  /\ (r.pc = "gateway" /\ cyc'[c] # r /\ cyc'[c].log[r.i] = "ok") =>
                   cyc'[c].pc = (IF item.operation \in {"INSERT", "UPDATE"}
                                 THEN "mark" ELSE "remove")
              /\ (r.pc = "mark" /\ cyc'[c] # r) =>
                   /\ r.log[r.i] = "ok" /\ item.operation \in {"INSERT", "UPDATE"}
                   /\ cyc'[c].pc = "remove"
                   /\ (item.table_name = "passwords" /\ item.record_id \in 1..Len(passwords))
                        => passwords'[item.record_id].synced = 1
                   /\ (item.table_name = "users" /\ item.record_id \in 1..Len(users))
                        => users'[item.record_id].synced = 1
              /\ (r.pc = "remove" /\ r.log[r.i] = "ok" /\ cyc'[c] # r) =>
                   item.id \notin QueueIds'
     /\ \A id \in NewlySynced(passwords, passwords') :
          \E c \in Cycles :
            /\ cyc[c].pc = "mark"
            /\ cyc[c].snap[cyc[c].i].table_name = "passwords"
            /\ cyc[c].snap[cyc[c].i].record_id = id
     /\ \A id \in NewlySynced(users, users') :
          \E c \in Cycles :
            /\ cyc[c].pc = "mark"
            /\ cyc[c].snap[cyc[c].i].table_name = "users"
            /\ cyc[c].snap[cyc[c].i].record_id = id]_vars

\* the DELETE entries of passwords rows in the snapshot of r
DeleteEntries(r) ==
  {k \in 1..Len(r.snap) :
     r.snap[k].table_name = "passwords" /\ r.snap[k].operation = "DELETE"}

WriteFrame ==
  (wr' # wr) => UNCHANGED <<isOnline, syncInProgress, listeners, timers, cyc, started>>

C28_ProbeFailsClosed ==
  [][/\ (last'.op = "checkOnlineStatus" /\ last'.arg = "error") =>
          last'.result = "false"
     /\ (/\ last.op = "checkOnlineStatus" /\ last.arg = "error"
         /\ last'.op = "performSync") =>
          /\ last'.result \in {"offline", "busy"}
          /\ GuardFrame]_vars

\* C29: a pending auto-sync is added only by a step that takes isOnline from
\* false to true, one per such step; a network event that reports online
\* while isOnline is true, or that reports offline, adds none
C29_ScheduledOnlyOnReconnect ==
  [][/\ timers' > timers => (~isOnline /\ isOnline' /\ timers' = timers + 1)
     /\ (last'.op = "netinfo" /\ ~(~isOnline /\ isOnline')) => timers' = timers
     /\ (~isOnline /\ isOnline') => timers' > timers]_vars

\* C30: every drain cycle terminates: a cycle takes the entries of its
\* snapshot one after the other (the position never goes back and the entry
\* at hand has had no remote call before its own), so it makes at most one
\* remote call per entry, and whenever the in-progress flag has been set it is
\* false again later
C30_EveryCycleTerminates ==
  /\ [][\A c \in Cycles :
          /\ (Active(c) /\ Active(c)') =>
               /\ cyc'[c].i \in {cyc[c].i, cyc[c].i + 1}
               /\ cyc'[c].i <= Len(cyc'[c].snap)
          /\ (cyc'[c].pc = "gateway" /\ cyc'[c] # cyc[c]) =>
               cyc'[c].log[cyc'[c].i] = "none"]_vars
  /\ (syncInProgress ~> ~syncInProgress)

\* C31: no remote call is started while isOnline is false, and no attempts
\* counter is incremented by a cycle while isOnline is false
C31_NoDispatchWhileOffline ==
  [][\A c \in Cycles :
       /\ (cyc'[c].pc = "gateway" /\ cyc'[c] # cyc[c]) => isOnline
       /\ (cyc[c].pc = "incr" /\ cyc'[c] # cyc[c]) => isOnline]_vars

\* the successful remote calls made so far for the entry with this id that
\* the model still knows of: those followed by markAsSynced, those whose
\* markAsSynced is pending, and those of a cycle that is about to remove the
\* entry without markAsSynced (DELETE)
SuccessfulCalls(id) ==
  marks[id]
  + Cardinality({c \in Cycles :
                   /\ cyc[c].pc = "mark"
                   /\ cyc[c].snap[cyc[c].i].id = id})
  + Cardinality({c \in Cycles :
                   /\ cyc[c].pc = "remove"
                   /\ cyc[c].snap[cyc[c].i].id = id
                   /\ cyc[c].snap[cyc[c].i].operation = "DELETE"
                   /\ cyc[c].log[cyc[c].i] = "ok"})

\* C32: every queue entry has at most one successful remote call over the
\* whole execution, overlapping forced cycles included
C32_AtMostOneSuccessfulCall ==
  \A id \in 1..MaxEntries : SuccessfulCalls(id) <= 1

\* did an entry before position i of the snapshot of r, for the same record
\* as the entry at i, fail in this cycle?
EarlierFailed(r) ==
  \E k \in 1..(r.i - 1) :
    /\ r.snap[k].table_name = r.snap[r.i].table_name
    /\ r.snap[k].record_id = r.snap[r.i].record_id
    /\ r.log[k] = "fail"

\* C33: a cycle does not start the remote call of an UPDATE or DELETE entry
\* when an earlier entry of the same (table_name, record_id) failed in that
\* cycle
C33_NoDispatchAfterEarlierFailure ==
  [][\A c \in Cycles :
       (/\ cyc'[c].pc = "gateway" /\ cyc'[c] # cyc[c]
        /\ cyc'[c].snap[cyc'[c].i].operation \in {"UPDATE", "DELETE"})
         => ~EarlierFailed(cyc'[c])]_vars

\* C34: when a cycle ends with syncCompleted, syncedCount + failedCount is the
\* number of entries of its snapshot, syncedCount is the number of entries
\* that are gone from the queue and whose remote call succeeded, and
\* failedCount is the number of entries whose attempts counter is one more
\* than in the snapshot
C34_CountsMatchOutcome ==
  (last.op = "syncEnd" /\ last.result = "completed") =>
    /\ last.syncedCount + last.failedCount = Len(last.snap)
    /\ last.syncedCount =
         Cardinality({k \in 1..Len(last.snap) :
                        last.log[k] = "ok" /\ last.snap[k].id \notin QueueIds})
    /\ last.failedCount =
         Cardinality({k \in 1..Len(last.snap) :
                        \E e \in sync_queue :
                          /\ e.id = last.snap[k].id
                          /\ e.attempts = last.snap[k].attempts + 1})

\* C35: no call of performSync throws to its caller: a call that returns at
\* the guard, and a cycle that ends, give a result object (busy, offline,
\* completed or failed)
C35_NeverThrows ==
  /\ last.op = "performSync" => last.result \in {"busy", "offline", "started"}
  /\ last.op = "syncEnd" => last.result \in {"completed", "failed"}

\* how many times callback cb is subscribed in ls
Occurrences(ls, cb) == Cardinality({k \in 1..Len(ls) : ls[k] = cb})

\* C36: a call of the function returned by subscribe(cb) removes one
\* subscription of cb, the one it was returned for, and leaves every other
\* subscription registered
C36_UnsubscribeRemovesOne ==
  [][last'.op = "unsubscribe" =>
       \A cb \in Callbacks :
         Occurrences(listeners', cb) =
           (IF cb = last'.arg THEN Occurrences(listeners, cb) - 1
            ELSE Occurrences(listeners, cb))]_vars

\* C37: the cached isOnline equals the outcome of the most recent
\* observation: the value checkOnlineStatus returned (false when the probe
\* failed), or the connectivity the network event reported
C37_CacheEqualsLastObservation ==
  /\ last.op = "checkOnlineStatus" => (isOnline <=> (last.result = "true"))
  /\ last.op = "netinfo" => (isOnline <=> (last.events[1][2] = 1))

\* C38: once destroy() has been called no subscriber is called, no network
\* event changes isOnline, and no call of performSync made by the reconnect
\* timer passes the entry guard
C38_InertAfterDestroy ==
  [][~netInfoListener =>
       /\ last'.recv = <<>>
       /\ isOnline' = isOnline
       /\ last'.op = "performSync" /\ last'.arg = "timer" =>
            last'.result \in {"busy", "offline"}]_vars

====
